---------------------------- MODULE Spec2Model ----------------------------
(***************************************************************************)
(* USPTO DSAPI search client: the query builder and the search transport   *)
(* of src/app.py (web path: the /search route and search_uspto_dsapi) and  *)
(* of src/uspto_dsapi_search.py (interactive path: main and                *)
(* search_uspto_dsapi).                                                    *)
(*                                                                         *)
(* Python strings are sequences of one-character strings.  Python and JSON *)
(* values are tagged records [t |-> tag, v |-> payload].                   *)
(***************************************************************************)
EXTENDS Integers, Sequences, FiniteSets, TLC

(***************************************************************************)
(* Bounds of the model.                                                    *)
(***************************************************************************)
\* longest keyword list a caller passes
MaxKeywords == 2
\* longest docs list the upstream returns
MaxDocs == 2

(***************************************************************************)
(* Program constants.                                                      *)
(***************************************************************************)
\* app.py line 48: min(limit, 10000)
MaxRows == 10000
\* app.py line 119: data.get('limit', 500)
WebDefaultLimit == 500
\* uspto_dsapi_search.py lines 122, 124: default 10
CliDefaultLimit == 10
\* app.py line 64, uspto_dsapi_search.py line 51: resp.status == 200
StatusOK == 200

(***************************************************************************)
(* Strings.                                                                *)
(***************************************************************************)
LowerLetters ==
    << "a", "b", "c", "d", "e", "f", "g", "h", "i", "j", "k", "l", "m",
       "n", "o", "p", "q", "r", "s", "t", "u", "v", "w", "x", "y", "z" >>

UpperLetters ==
    << "A", "B", "C", "D", "E", "F", "G", "H", "I", "J", "K", "L", "M",
       "N", "O", "P", "Q", "R", "S", "T", "U", "V", "W", "X", "Y", "Z" >>

Digits == << "0", "1", "2", "3", "4", "5", "6", "7", "8", "9" >>

\* str.upper() on one character
UpperChar(c) ==
    IF \E i \in 1..Len(LowerLetters) : LowerLetters[i] = c
    THEN UpperLetters[CHOOSE i \in 1..Len(LowerLetters) : LowerLetters[i] = c]
    ELSE c

\* str.upper()
Upper(s) == [i \in 1..Len(s) |-> UpperChar(s[i])]

\* the characters str.strip() removes
IsSpace(c) == c \in {" ", "\t", "\n"}

RECURSIVE LStrip(_)
LStrip(s) ==
    IF s # <<>> /\ IsSpace(Head(s)) THEN LStrip(Tail(s)) ELSE s

RECURSIVE RStrip(_)
RStrip(s) ==
    IF s # <<>> /\ IsSpace(s[Len(s)]) THEN RStrip(SubSeq(s, 1, Len(s) - 1)) ELSE s

\* str.strip()
Strip(s) == RStrip(LStrip(s))

RECURSIVE NatToStr(_)
NatToStr(n) ==
    IF n < 10 THEN << Digits[n + 1] >>
    ELSE NatToStr(n \div 10) \o << Digits[(n % 10) + 1] >>

\* str(n) for an int n
IntToStr(n) == IF n < 0 THEN << "-" >> \o NatToStr(-n) ELSE NatToStr(n)

\* sep.join(parts)
RECURSIVE Join(_, _)
Join(sep, parts) ==
    IF parts = <<>> THEN <<>>
    ELSE IF Len(parts) = 1 THEN parts[1]
    ELSE parts[1] \o sep \o Join(sep, Tail(parts))

\* needle in hay, for two strings
Contains(hay, needle) ==
    \E i \in 0..(Len(hay) - Len(needle)) :
        SubSeq(hay, i + 1, i + Len(needle)) = needle

\* the number of places of s that hold a character of cs
CountChars(s, cs) == Cardinality({i \in 1..Len(s) : s[i] \in cs})

(***************************************************************************)
(* String literals of the source.                                         *)
(***************************************************************************)
S_AND == << "A", "N", "D" >>
S_OR == << "O", "R" >>
SepAND == << " " >> \o S_AND \o << " " >>
SepOR == << " " >> \o S_OR \o << " " >>
S_Zero == << "0" >>
K_response == << "r", "e", "s", "p", "o", "n", "s", "e" >>
K_docs == << "d", "o", "c", "s" >>
K_numFound == << "n", "u", "m", "F", "o", "u", "n", "d" >>
MsgNoKeywords ==
    << "N", "o", " ", "k", "e", "y", "w", "o", "r", "d", "s", " ",
       "p", "r", "o", "v", "i", "d", "e", "d" >>
MsgPleaseProvide ==
    << "P", "l", "e", "a", "s", "e", " ", "p", "r", "o", "v", "i", "d", "e", " ",
       "a", "t", " ", "l", "e", "a", "s", "t", " ", "o", "n", "e", " ",
       "k", "e", "y", "w", "o", "r", "d" >>
MsgApiError == << "A", "P", "I", " ", "E", "r", "r", "o", "r", " " >>
MsgErrorMaking ==
    << "E", "r", "r", "o", "r", " ", "m", "a", "k", "i", "n", "g", " ",
       "r", "e", "q", "u", "e", "s", "t", ":", " " >>

(***************************************************************************)
(* Python / JSON values.                                                   *)
(***************************************************************************)
JNull == [t |-> "null", v |-> <<>>]
JNum(n) == [t |-> "num", v |-> n]
JBool(b) == [t |-> "bool", v |-> b]
JStr(s) == [t |-> "str", v |-> s]
JList(xs) == [t |-> "list", v |-> xs]
\* an object is a sequence of <<key, value>> pairs with distinct keys
JObj(pairs) == [t |-> "obj", v |-> pairs]
\* a key a dict does not hold; an argument that was not passed
Absent == [t |-> "absent", v |-> <<>>]

HasKey(o, k) == \E i \in 1..Len(o.v) : o.v[i][1] = k
ValueAt(o, k) == o.v[CHOOSE i \in 1..Len(o.v) : o.v[i][1] = k][2]


(***************************************************************************)
(* Python operations that may raise.                                       *)
(***************************************************************************)
Return(val) == [kind |-> "return", val |-> val]
Raise(desc) == [kind |-> "raise", val |-> desc]

\* str(e) of the exceptions the try block catches, abbreviated
E_TypeError == << "T", "y", "p", "e" >>
E_AttributeError == << "A", "t", "t", "r" >>
E_ClientError == << "C", "l", "i", "e", "n", "t" >>
E_DecodeError == << "D", "e", "c", "o", "d", "e" >>

\* key in data: a dict looks among its keys, a list among its elements, a
\* string among its substrings; any other value raises TypeError
PyIn(key, data) ==
    CASE data.t = "obj" -> Return(HasKey(data, key))
      [] data.t = "list" -> Return(\E i \in 1..Len(data.v) : data.v[i] = JStr(key))
      [] data.t = "str" -> Return(Contains(data.v, key))
      [] OTHER -> Raise(E_TypeError)

\* data[key] for a string key: only a dict can be indexed by it
PyIndex(data, key) ==
    IF data.t = "obj" /\ HasKey(data, key) THEN Return(ValueAt(data, key))
    ELSE Raise(E_TypeError)

\* value.get(key, default): only a dict has the method
PyGet(value, key, default) ==
    IF value.t = "obj"
    THEN Return(IF HasKey(value, key) THEN ValueAt(value, key) ELSE default)
    ELSE Raise(E_AttributeError)

\* len(value)
PyLen(value) ==
    IF value.t \in {"list", "str", "obj"} THEN Return(Len(value.v))
    ELSE Raise(E_TypeError)

\* isinstance(data, dict)
IsDict(data) == data.t = "obj"

(***************************************************************************)
(* Result envelopes of app.py.                                            *)
(***************************************************************************)
Envelope(error, results, total, shown, query) ==
    [error |-> error, results |-> results, total |-> total,
     shown |-> shown, query |-> query]

\* app.py line 31
NoKeywordsEnvelope ==
    Envelope(JStr(MsgNoKeywords), JList(<<>>), JNum(0), Absent, Absent)

\* app.py lines 125-129
PleaseProvideEnvelope ==
    Envelope(JStr(MsgPleaseProvide), JList(<<>>), JNum(0), Absent, Absent)

\* app.py lines 93-97
StatusErrorEnvelope(status, text) ==
    Envelope(JStr(MsgApiError \o IntToStr(status) \o << ":", " " >> \o text),
             JList(<<>>), JNum(0), Absent, Absent)

\* a variant of lines 99-103 that reports one result along with the error
ExceptionEnvelope_CountsOne(desc) ==
    Envelope(JStr(MsgErrorMaking \o desc), JList(<<>>), JNum(1), Absent, Absent)

\* app.py lines 99-103
ExceptionEnvelope(desc) ==
    Envelope(JStr(MsgErrorMaking \o desc), JList(<<>>), JNum(0), Absent, Absent)

\* app.py lines 71-76
ResponseEnvelope(docs, numFound, criteria) ==
    Envelope(Absent, docs, numFound, JNum(PyLen(docs).val), JStr(criteria))

\* app.py lines 78-83
DocsEnvelope(docs, criteria) ==
    Envelope(Absent, docs, JNum(PyLen(docs).val), JNum(PyLen(docs).val),
             JStr(criteria))

\* app.py lines 85-90
FallbackEnvelope(data, criteria) ==
    Envelope(Absent,
             IF IsDict(data) THEN JList(<< data >>) ELSE JList(<<>>),
             IF IsDict(data) THEN JNum(1) ELSE JNum(0),
             IF IsDict(data) THEN JNum(1) ELSE JNum(0),
             JStr(criteria))

\* app.py lines 68-70: the response branch
NormalizeResponse(data, criteria) ==
    LET resp == PyIndex(data, K_response)
    IN  IF resp.kind = "raise" THEN resp
        ELSE LET docs == PyGet(resp.val, K_docs, JList(<<>>))
                 numFound == PyGet(resp.val, K_numFound, JNum(0))
             IN  IF docs.kind = "raise" THEN docs
                 ELSE IF PyLen(docs.val).kind = "raise" THEN PyLen(docs.val)
                 ELSE Return(ResponseEnvelope(docs.val, numFound.val, criteria))

\* app.py lines 77-83: the docs branch
NormalizeDocs(data, criteria) ==
    LET docs == PyIndex(data, K_docs)
    IN  IF docs.kind = "raise" THEN docs
        ELSE IF PyLen(docs.val).kind = "raise" THEN PyLen(docs.val)
        ELSE Return(DocsEnvelope(docs.val, criteria))

\* a variant of lines 68-90 that tests the docs key before the response key
Normalize_DocsFirst(data, criteria) ==
    LET inResponse == PyIn(K_response, data)
        inDocs == PyIn(K_docs, data)
    IN  IF inDocs.kind = "raise" THEN inDocs
        ELSE IF inDocs.val THEN NormalizeDocs(data, criteria)
        ELSE IF inResponse.kind = "raise" THEN inResponse
        ELSE IF inResponse.val THEN NormalizeResponse(data, criteria)
        ELSE Return(FallbackEnvelope(data, criteria))

\* app.py lines 68-90: what the body of a status 200 response resolves to,
\* a returned envelope or an exception raised inside the try block
Normalize(data, criteria) ==
    LET inResponse == PyIn(K_response, data)
        inDocs == PyIn(K_docs, data)
    IN  IF inResponse.kind = "raise" THEN inResponse
        ELSE IF inResponse.val THEN NormalizeResponse(data, criteria)
        ELSE IF inDocs.kind = "raise" THEN inDocs
        ELSE IF inDocs.val THEN NormalizeDocs(data, criteria)
        ELSE Return(FallbackEnvelope(data, criteria))

(***************************************************************************)
(* Result lists of uspto_dsapi_search.py.                                 *)
(***************************************************************************)
\* uspto_dsapi_search.py lines 56-65; the print of line 59 evaluates len(docs)
CliNormalize(data) ==
    LET inResponse == PyIn(K_response, data)
        inDocs == PyIn(K_docs, data)
    IN  IF inResponse.kind = "raise" THEN inResponse
        ELSE IF inResponse.val
             THEN LET resp == PyIndex(data, K_response)
                  IN  IF resp.kind = "raise" THEN resp
                      ELSE LET docs == PyGet(resp.val, K_docs, JList(<<>>))
                           IN  IF docs.kind = "raise" THEN docs
                               ELSE IF PyLen(docs.val).kind = "raise"
                                    THEN PyLen(docs.val)
                               ELSE docs
        ELSE IF inDocs.kind = "raise" THEN inDocs
        ELSE IF inDocs.val THEN PyIndex(data, K_docs)
        ELSE Return(IF IsDict(data) THEN JList(<< data >>) ELSE JList(<<>>))

(***************************************************************************)
(* Query builder and form data.                                           *)
(***************************************************************************)
\* a variant of the clause that groups it in parentheses: f"(*:{kw}*)"
Clause_Grouped(kw) == << "(", "*", ":" >> \o kw \o << "*", ")" >>

\* app.py lines 36, 39 and uspto_dsapi_search.py line 28: f"*:{kw}*"
Clause(kw) == << "*", ":" >> \o kw \o << "*" >>

\* app.py lines 36, 39: [f"*:{kw}*" for kw in keywords]
QueryParts(keywords) == [i \in 1..Len(keywords) |-> Clause(keywords[i])]

\* a variant of line 34 that tests for "OR" instead: operator.upper() != "OR"
IsAndOperator_UnlessOr(op) == Upper(op) # S_OR

\* app.py line 34: operator.upper() == "AND"
IsAndOperator(op) == Upper(op) = S_AND

\* app.py lines 34-40, for an operator that is a string
BuildCriteria(keywords, op) ==
    IF IsAndOperator(op) THEN Join(SepAND, QueryParts(keywords))
    ELSE Join(SepOR, QueryParts(keywords))

Min(a, b) == IF a < b THEN a ELSE b

\* app.py line 48: str(min(limit, 10000))
WebRows(limit) == IntToStr(Min(limit, MaxRows))

\* app.py lines 45-48
WebFormData(criteria, limit) ==
    [criteria |-> criteria, start |-> S_Zero, rows |-> WebRows(limit)]

\* uspto_dsapi_search.py line 36: str(limit)
CliRows(limit) == IntToStr(limit)

\* uspto_dsapi_search.py lines 33-36
CliFormData(criteria, limit) ==
    [criteria |-> criteria, start |-> S_Zero, rows |-> CliRows(limit)]

\* a variant of line 122 that tests the keyword before stripping it:
\* [kw.strip() for kw in keywords if kw]
RECURSIVE FilterKeywords_TestUnstripped(_)
FilterKeywords_TestUnstripped(raw) ==
    IF raw = <<>> THEN <<>>
    ELSE IF Head(raw) # <<>>
         THEN << Strip(Head(raw)) >> \o FilterKeywords_TestUnstripped(Tail(raw))
    ELSE FilterKeywords_TestUnstripped(Tail(raw))

\* app.py line 122: [kw.strip() for kw in keywords if kw.strip()]
RECURSIVE FilterKeywords(_)
FilterKeywords(raw) ==
    IF raw = <<>> THEN <<>>
    ELSE IF Strip(Head(raw)) # <<>>
         THEN << Strip(Head(raw)) >> \o FilterKeywords(Tail(raw))
    ELSE FilterKeywords(Tail(raw))

(***************************************************************************)
(* Inputs: what callers pass and what the upstream answers.                *)
(***************************************************************************)
\* app.py line 18: limit: int = 100
DirectDefaultLimit == 100

SeqsUpTo(S, n) == UNION {[1..k -> S] : k \in 0..n}

\* keyword strings as typed: empty, blank, plain, padded with a metacharacter
KeywordPool ==
    { <<>>, << " " >>, << "a" >>, << " ", "b", "(", " " >> }

RawKeywordLists == SeqsUpTo(KeywordPool, MaxKeywords)

OperatorValues ==
    { JStr(S_AND), JStr(<< "a", "n", "d" >>), JStr(S_OR), JStr(<< "o", "r" >>),
      JStr(<<>>), JStr(<< "x", "y", "z" >>), JNull }

LimitValues == { JNum(-5), JNum(10000), JNum(10001), JNum(50000) }

Statuses == { 200, 201, 204, 404, 500 }

DocA == JObj(<< << << "a" >>, JNum(1) >> >>)
DocB == JObj(<< << << "b" >>, JNum(2) >> >>)
DocLists == { JList(d) : d \in SeqsUpTo({DocA, DocB}, MaxDocs) }

\* what the upstream puts under the response key
ResponseValues ==
    { JObj(<< << K_docs, d >>, << K_numFound, JNum(5) >> >>) : d \in DocLists }
    \cup
    { JObj(<< << K_docs, JList(<< DocA >>) >> >>),
      JObj(<< << K_numFound, JNum(5) >> >>),
      JObj(<<>>),
      JObj(<< << K_docs, JNull >>, << K_numFound, JNum(5) >> >>),
      JObj(<< << K_docs, JNum(3) >> >>),
      JObj(<< << K_docs, JStr(<< "a", "b" >>) >> >>),
      JNull,
      JList(<<>>) }

\* the decoded JSON bodies of status 200 responses
ObjectBodies ==
    { JObj(<< << K_response, r >> >>) : r \in ResponseValues }
    \cup
    { JObj(<< << K_docs, JList(<< DocA, DocB >>) >>,
              << K_response,
                 JObj(<< << K_docs, JList(<< DocA >>) >>,
                         << K_numFound, JNum(5) >> >>) >> >>) }
    \cup
    { JObj(<< << K_docs, d >> >>) : d \in DocLists }
    \cup
    { JObj(<< << K_docs, JNum(3) >> >>),
      JObj(<< << K_docs, JNull >> >>),
      JObj(<< << K_docs, JStr(<< "a", "b" >>) >> >>),
      JObj(<< << << "x" >>, JNum(1) >> >>),
      JObj(<<>>) }

NonObjectBodies ==
    { JList(<<>>),
      JList(<< JNum(1), JNum(2), JNum(3) >>),
      JList(<< JStr(K_response) >>),
      JList(<< JStr(K_docs) >>),
      JStr(<< "a", "b", "c" >>),
      JStr(K_response),
      JStr(<< "x" >> \o K_docs),
      JNum(5),
      JBool(TRUE),
      JNull }

JsonBodies == ObjectBodies \cup NonObjectBodies

\* a body resp.json() cannot decode, a body resp.text() cannot read
Undecodable == [t |-> "fail", v |-> E_DecodeError]

TextBodies ==
    { JStr(<<>>), JStr(<< "i", "n", "t", "e", "r", "n", "a", "l" >>) }

(***************************************************************************)
(* State.                                                                  *)
(***************************************************************************)
VARIABLES
    pc,           \* where the call is
    entry,        \* "route", "direct" or "cli": who started the search
    rawKeywords,  \* the keyword list as the caller supplied it
    keywords,     \* the keywords argument of search_uspto_dsapi
    operator,     \* the operator argument of search_uspto_dsapi
    limit,        \* the limit argument of search_uspto_dsapi
    criteria,     \* the query built
    form,         \* the form data prepared
    session,      \* "none", "open" or "closed": the aiohttp ClientSession
    requests,     \* the forms POSTed so far, in order
    status,       \* resp.status, 0 before a response
    body,         \* the body of the response received
    result,       \* the envelope returned (web path)
    cliResult     \* the list returned (interactive path)

vars == << pc, entry, rawKeywords, keywords, operator, limit, criteria, form,
           session, requests, status, body, result, cliResult >>

NoForm == [criteria |-> <<>>, start |-> <<>>, rows |-> <<>>]
NoResult == Envelope(Absent, Absent, Absent, Absent, Absent)

Init ==
    /\ pc = "start"
    /\ entry = "none"
    /\ rawKeywords = <<>>
    /\ keywords = <<>>
    /\ operator = Absent
    /\ limit = 0
    /\ criteria = <<>>
    /\ form = NoForm
    /\ session = "none"
    /\ requests = <<>>
    /\ status = 0
    /\ body = Absent
    /\ result = NoResult
    /\ cliResult = Absent

(***************************************************************************)
(* Web path: app.py.                                                       *)
(***************************************************************************)
\* app.py lines 113-134: the /search route up to the call of
\* search_uspto_dsapi; a key the request body lacks takes its default
Search ==
    /\ pc = "start"
    /\ \E raw \in RawKeywordLists, op \in OperatorValues \cup {Absent},
          lim \in LimitValues \cup {Absent} :
          /\ entry' = "route"
          /\ rawKeywords' = raw
          /\ keywords' = FilterKeywords(raw)
          /\ operator' = IF op.t = "absent" THEN JStr(S_AND) ELSE op
          /\ limit' = IF lim.t = "absent" THEN WebDefaultLimit ELSE lim.v
          /\ IF FilterKeywords(raw) = <<>>
             THEN /\ result' = PleaseProvideEnvelope
                  /\ pc' = "done"
             ELSE /\ result' = result
                  /\ pc' = "called"
    /\ UNCHANGED << criteria, form, session, requests, status, body, cliResult >>

\* app.py line 18: search_uspto_dsapi called by other code, with the
\* defaults of its signature for the arguments left out
DirectCall ==
    /\ pc = "start"
    /\ \E raw \in RawKeywordLists, op \in OperatorValues \cup {Absent},
          lim \in LimitValues \cup {Absent} :
          /\ entry' = "direct"
          /\ rawKeywords' = raw
          /\ keywords' = raw
          /\ operator' = IF op.t = "absent" THEN JStr(S_AND) ELSE op
          /\ limit' = IF lim.t = "absent" THEN DirectDefaultLimit ELSE lim.v
    /\ pc' = "called"
    /\ UNCHANGED << criteria, form, session, requests, status, body, result,
                    cliResult >>

\* app.py lines 30-59: the empty check, the query and the form data;
\* operator.upper() on None raises AttributeError outside the try block
BuildQuery ==
    /\ pc = "called"
    /\ IF keywords = <<>>
       THEN /\ result' = NoKeywordsEnvelope
            /\ pc' = "done"
            /\ UNCHANGED << criteria, form >>
       ELSE IF operator.t # "str"
       THEN /\ pc' = "raised"
            /\ UNCHANGED << criteria, form, result >>
       ELSE /\ criteria' = BuildCriteria(keywords, operator.v)
            /\ form' = WebFormData(BuildCriteria(keywords, operator.v), limit)
            /\ pc' = "ready"
            /\ UNCHANGED result
    /\ UNCHANGED << entry, rawKeywords, keywords, operator, limit, session,
                    requests, status, body, cliResult >>

\* app.py line 62: async with aiohttp.ClientSession(...) as session
OpenSession ==
    /\ pc = "ready"
    /\ session' = "open"
    /\ pc' = "session"
    /\ UNCHANGED << entry, rawKeywords, keywords, operator, limit, criteria,
                    form, requests, status, body, result, cliResult >>

\* a variant of lines 63, 98-103 that tries the POST again after a failure
PostFails_Retry ==
    /\ pc = "session"
    /\ requests' = Append(requests, form)
    /\ pc' = "session"
    /\ UNCHANGED << entry, rawKeywords, keywords, operator, limit, criteria,
                    form, session, status, body, result, cliResult >>

\* app.py lines 63, 98-103: the POST fails in the network; the exception
\* leaves the async with block, which closes the session, and is caught
PostFails ==
    /\ pc = "session"
    /\ requests' = Append(requests, form)
    /\ result' = ExceptionEnvelope(E_ClientError)
    /\ session' = "closed"
    /\ pc' = "done"
    /\ UNCHANGED << entry, rawKeywords, keywords, operator, limit, criteria,
                    form, status, body, cliResult >>

\* app.py line 63: the POST is answered with some status
PostResponds ==
    /\ pc = "session"
    /\ requests' = Append(requests, form)
    /\ \E s \in Statuses : status' = s
    /\ pc' = "response"
    /\ UNCHANGED << entry, rawKeywords, keywords, operator, limit, criteria,
                    form, session, body, result, cliResult >>

\* a variant of line 64 that accepts every 2xx status
IsSuccess_Any2xx(s) == s \in 200..299

\* app.py line 64: resp.status == 200
IsSuccess(s) == s = StatusOK

\* app.py lines 65-90, 98-103: the envelope for a status 200 response
SuccessResult(b, crit) ==
    IF b.t = "fail" THEN ExceptionEnvelope(b.v)
    ELSE IF Normalize(b, crit).kind = "raise"
         THEN ExceptionEnvelope(Normalize(b, crit).val)
    ELSE Normalize(b, crit).val

\* app.py lines 92-97, 98-103: the envelope for any other status
FailureResult(s, b) ==
    IF b.t = "fail" THEN ExceptionEnvelope(b.v)
    ELSE StatusErrorEnvelope(s, b.v)

\* app.py lines 64-103: the body is read and the call returns; leaving the
\* async with blocks closes the session before the value reaches the caller
ReadBody ==
    /\ pc = "response"
    /\ IF IsSuccess(status)
       THEN \E b \in JsonBodies \cup {Undecodable} :
                /\ body' = b
                /\ result' = SuccessResult(b, criteria)
       ELSE \E b \in TextBodies \cup {Undecodable} :
                /\ body' = b
                /\ result' = FailureResult(status, b)
    /\ session' = "closed"
    /\ pc' = "done"
    /\ UNCHANGED << entry, rawKeywords, keywords, operator, limit, criteria,
                    form, requests, status, cliResult >>

(***************************************************************************)
(* Interactive path: uspto_dsapi_search.py.                                *)
(***************************************************************************)
\* uspto_dsapi_search.py lines 112-129: main reads the keyword and the
\* number of results; an empty or unparsable number is 10
CliMain ==
    /\ pc = "start"
    /\ \E kw \in KeywordPool,
          lim \in LimitValues \cup {Absent, JStr(<< "x" >>)} :
          /\ entry' = "cli"
          /\ rawKeywords' = << kw >>
          /\ IF Strip(kw) = <<>>
             THEN /\ pc' = "done"
                  /\ UNCHANGED << keywords, limit >>
             ELSE /\ keywords' = << Strip(kw) >>
                  /\ limit' = IF lim.t = "num" THEN lim.v ELSE CliDefaultLimit
                  /\ pc' = "cli_called"
    /\ UNCHANGED << operator, criteria, form, session, requests, status, body,
                    result, cliResult >>

\* uspto_dsapi_search.py lines 26-46: the query and the form data
CliBuildQuery ==
    /\ pc = "cli_called"
    /\ criteria' = Clause(keywords[1])
    /\ form' = CliFormData(Clause(keywords[1]), limit)
    /\ pc' = "cli_ready"
    /\ UNCHANGED << entry, rawKeywords, keywords, operator, limit, session,
                    requests, status, body, result, cliResult >>

\* uspto_dsapi_search.py lines 51-72: the list for a response
CliResult(s, b) ==
    IF s # StatusOK \/ b.t = "fail" THEN JList(<<>>)
    ELSE IF CliNormalize(b).kind = "raise" THEN JList(<<>>)
    ELSE CliNormalize(b).val

\* uspto_dsapi_search.py lines 48-72: one POST inside a session; every
\* failure prints and returns []
CliRequest ==
    /\ pc = "cli_ready"
    /\ requests' = Append(requests, form)
    /\ \/ /\ cliResult' = JList(<<>>)
          /\ UNCHANGED << status, body >>
       \/ \E s \in Statuses :
            \E b \in (IF s = StatusOK THEN JsonBodies ELSE TextBodies)
                       \cup {Undecodable} :
                /\ status' = s
                /\ body' = b
                /\ cliResult' = CliResult(s, b)
    /\ session' = "closed"
    /\ pc' = "done"
    /\ UNCHANGED << entry, rawKeywords, keywords, operator, limit, criteria,
                    form, result >>

Next ==
    \/ Search
    \/ DirectCall
    \/ BuildQuery
    \/ OpenSession
    \/ PostFails
    \/ PostResponds
    \/ ReadBody
    \/ CliMain
    \/ CliBuildQuery
    \/ CliRequest

Spec == Init /\ [][Next]_vars

(***************************************************************************)
(* Vocabulary of the properties.                                          *)
(***************************************************************************)
Web == entry \in {"route", "direct"}
Returned == Web /\ pc = "done"
QueryBuilt == Web /\ form # NoForm
ErrorSet(r) == r.error.t = "str"
ErrorUnset(r) == r.error.t = "absent"
NoRecords(r) == r.results.t = "list" /\ r.results.v = <<>>
ZeroTotal(r) == r.total.t = "num" /\ r.total.v = 0
HasLen(x) == x.t \in {"list", "str", "obj"}

\* an error that reports an upstream status: "API Error <status>: <text>"
IsStatusError(r) ==
    /\ ErrorSet(r)
    /\ Len(r.error.v) >= Len(MsgApiError)
    /\ SubSeq(r.error.v, 1, Len(MsgApiError)) = MsgApiError

\* every entry of the list is empty or holds only whitespace
AllBlank(raw) ==
    \A i \in 1..Len(raw) : \A j \in 1..Len(raw[i]) : raw[i][j] \in {" ", "\t", "\n"}

\* the decimal numerals of the statuses and of the row counts in use
StatusText(s) ==
    CASE s = 200 -> << "2", "0", "0" >>
      [] s = 201 -> << "2", "0", "1" >>
      [] s = 204 -> << "2", "0", "4" >>
      [] s = 404 -> << "4", "0", "4" >>
      [] s = 500 -> << "5", "0", "0" >>

ClampedRowsText(l) ==
    CASE l = -5 -> << "-", "5" >>
      [] l = 10 -> << "1", "0" >>
      [] l = 100 -> << "1", "0", "0" >>
      [] l = 500 -> << "5", "0", "0" >>
      [] l >= 10000 -> << "1", "0", "0", "0", "0" >>

\* where clause i of a flat join of the keywords K starts, counted from 0
RECURSIVE ClauseOffset(_, _, _)
ClauseOffset(K, sepLen, i) ==
    IF i = 1 THEN 0
    ELSE ClauseOffset(K, sepLen, i - 1) + Len(K[i - 1]) + 3 + sepLen

\* q is exactly: one clause *:{keyword}* per keyword of K, in the order of
\* K, consecutive clauses separated by sep, nothing before, after or around
IsFlatJoin(q, K, sep) ==
    /\ K # <<>>
    /\ Len(q) = ClauseOffset(K, Len(sep), Len(K)) + Len(K[Len(K)]) + 3
    /\ \A i \in 1..Len(K) :
          LET o == ClauseOffset(K, Len(sep), i)
              n == Len(K[i])
          IN  /\ q[o + 1] = "*"
              /\ q[o + 2] = ":"
              /\ SubSeq(q, o + 3, o + 2 + n) = K[i]
              /\ q[o + 3 + n] = "*"
              /\ i < Len(K) => SubSeq(q, o + 4 + n, o + 3 + n + Len(sep)) = sep

RECURSIVE SumCount(_, _)
SumCount(K, cs) ==
    IF K = <<>> THEN 0 ELSE CountChars(Head(K), cs) + SumCount(Tail(K), cs)

(***************************************************************************)
(* C1.                                                                     *)
(***************************************************************************)
\* C1: every call of search_uspto_dsapi on the web path, whatever the
\* keywords, the operator (a string, or missing, or null) and the limit and
\* whatever the upstream does, ends by returning an envelope: no exception
\* leaves the call.
C1_NoExceptionEscapes == Web => pc # "raised"

ObjectAnswered == Returned /\ status = StatusOK /\ body.t = "obj"

\* the docs and the total the precedence rule names for an object body
RuleDocs(b) ==
    IF HasKey(b, K_response)
    THEN IF ValueAt(b, K_response).t = "obj" /\ HasKey(ValueAt(b, K_response), K_docs)
         THEN ValueAt(ValueAt(b, K_response), K_docs)
         ELSE JList(<<>>)
    ELSE IF HasKey(b, K_docs) THEN ValueAt(b, K_docs)
    ELSE JList(<< b >>)

RuleTotal(b) ==
    IF HasKey(b, K_response)
    THEN IF ValueAt(b, K_response).t = "obj"
            /\ HasKey(ValueAt(b, K_response), K_numFound)
         THEN ValueAt(ValueAt(b, K_response), K_numFound)
         ELSE JNum(0)
    ELSE IF HasKey(b, K_docs)
         THEN JNum(IF HasLen(ValueAt(b, K_docs)) THEN Len(ValueAt(b, K_docs).v) ELSE 0)
    ELSE JNum(1)

FollowsRule(r, b) ==
    /\ ErrorUnset(r)
    /\ r.results = RuleDocs(b)
    /\ r.total = RuleTotal(b)
    /\ r.shown = JNum(IF HasLen(RuleDocs(b)) THEN Len(RuleDocs(b).v) ELSE 0)
    /\ r.query = JStr(criteria)

\* the value under response is an object and the docs used have a length
UsableShape(b) ==
    IF HasKey(b, K_response)
    THEN ValueAt(b, K_response).t = "obj" /\ HasLen(RuleDocs(b))
    ELSE HasLen(RuleDocs(b))

\* C3 as stated: for every status 200 response whose body is an object the
\* result follows the precedence response, then docs, then the whole object,
\* with error unset, shown the length of the records and query the criteria
\* sent.
C3_EveryObjectFollowsRule == ObjectAnswered => FollowsRule(result, body)

\* C3 amended: the precedence holds, with error unset, shown the length of
\* the records and query the criteria sent, when the value under response is
\* an object and the docs value used has a length (a list, a string or an
\* object); for any other object body (response not an object; docs null, a
\* number or a boolean) the result has error set, no records and total 0.
C3_UsableObjectFollowsRule ==
    ObjectAnswered =>
        IF UsableShape(body)
        THEN /\ FollowsRule(result, body)
             /\ Len(requests) = 1 /\ result.query = JStr(requests[1].criteria)
        ELSE ErrorSet(result) /\ NoRecords(result) /\ ZeroTotal(result)

C3_Witness ==
    /\ ObjectAnswered
    /\ HasKey(body, K_response) /\ HasKey(body, K_docs)
    /\ result.results = JList(<< DocA >>)
    /\ result.total = JNum(5)
    /\ result.shown = JNum(1)

(***************************************************************************)
(* C4.                                                                     *)
(***************************************************************************)
\* C4: for every status 200 response whose JSON body is not an object (a
\* list, a string, a number, a boolean, null) the result has no records,
\* total 0 and error unset.
C4_NonObjectYieldsEmpty ==
    (Returned /\ status = StatusOK
       /\ body.t \in {"list", "str", "num", "bool", "null"})
    => ErrorUnset(result) /\ NoRecords(result) /\ ZeroTotal(result)

NothingSent == requests = <<>> /\ session = "none"
EmptyInputResult == ErrorSet(result) /\ NoRecords(result) /\ ZeroTotal(result)

\* C6 as stated: with a keyword list that is empty or holds only empty or
\* blank entries, through the route and through a direct call alike, no
\* request is issued and the result has error set, no records and total 0.
C6_BlankInputNeverSends ==
    (Web /\ AllBlank(rawKeywords)) =>
        /\ NothingSent
        /\ pc = "done" => EmptyInputResult

\* C6 amended: through the route, a keyword list that is empty or holds only
\* empty or blank entries issues no request and gives error set, no records
\* and total 0; a direct call of search_uspto_dsapi does so for the empty
\* list only: a list that holds an empty or blank entry is searched as
\* given, so a direct call of it that returns has issued one request.
C6_RouteBlankDirectEmpty ==
    /\ (entry = "route" /\ AllBlank(rawKeywords)) =>
          NothingSent /\ pc = "done" /\ EmptyInputResult
    /\ (entry = "direct" /\ rawKeywords = <<>>) =>
          /\ NothingSent
          /\ pc \in {"called", "done"}
          /\ pc = "done" => EmptyInputResult
    /\ (entry = "direct" /\ rawKeywords # <<>> /\ pc = "done") =>
          Len(requests) = 1

C6_Witness ==
    /\ entry = "route"
    /\ rawKeywords = << << " " >>, <<>> >>
    /\ pc = "done"
    /\ NothingSent
    /\ EmptyInputResult

(***************************************************************************)
(* C7.                                                                     *)
(***************************************************************************)
\* C7: in every envelope a search returns, on every path, error and data
\* exclude each other: with error set there are no records and total is 0;
\* with records or a total that is not 0, error is unset.
C7_ErrorExcludesData ==
    Returned =>
        /\ ErrorSet(result) \/ ErrorUnset(result)
        /\ ErrorSet(result) => NoRecords(result) /\ ZeroTotal(result)
        /\ (~NoRecords(result) \/ ~ZeroTotal(result)) => ErrorUnset(result)

C7_Witness ==
    /\ Returned
    /\ status = StatusOK
    /\ body = JObj(<< << K_response, JNull >> >>)
    /\ ErrorSet(result)
    /\ NoRecords(result)
    /\ ZeroTotal(result)

(***************************************************************************)
(* C8.                                                                     *)
(***************************************************************************)
\* C8: for every search that reaches the transport, on the web path and on
\* the interactive path, the rows field sent is the decimal numeral of
\* min(limit, 10000), so never above 10000, and the start field sent is "0".
C8_RowsClampedOnBothPaths ==
    \A i \in 1..Len(requests) :
        /\ requests[i].rows = ClampedRowsText(limit)
        /\ requests[i].start = << "0" >>

(***************************************************************************)
(* C9.                                                                     *)
(***************************************************************************)
\* C9: for a non-empty keyword sequence K and an operator that is AND or OR,
\* the query is exactly |K| clauses *:{keyword}*, one per keyword in the
\* order of K, duplicates kept and keyword text as given, consecutive
\* clauses separated by the operator token between single spaces, with no
\* parentheses added; one keyword gives one clause and no operator token.
\* On the interactive path the query is the one clause of its keyword.
C9_FlatJoinOfClauses ==
    /\ (QueryBuilt /\ Upper(operator.v) \in {S_AND, S_OR}) =>
          /\ IsFlatJoin(criteria, keywords,
                        << " " >> \o Upper(operator.v) \o << " " >>)
          /\ CountChars(criteria, {"(", ")"}) = SumCount(keywords, {"(", ")"})
          /\ Len(keywords) = 1 => criteria = << "*", ":" >> \o keywords[1] \o << "*" >>
    /\ (entry = "cli" /\ form # NoForm) =>
          /\ Len(keywords) = 1
          /\ criteria = << "*", ":" >> \o keywords[1] \o << "*" >>
    /\ form # NoForm => form.criteria = criteria

C9_Witness ==
    /\ QueryBuilt
    /\ operator = JStr(S_OR)
    /\ keywords = << << "b", "(" >>, << "b", "(" >> >>
    /\ criteria = << "*", ":", "b", "(", "*", " ", "O", "R", " ",
                     "*", ":", "b", "(", "*" >>

(***************************************************************************)
(* C10.                                                                    *)
(***************************************************************************)
Terminal == pc \in {"done", "raised"}

=============================================================================
